---- MODULE Spec2Model ----
(***************************************************************************)
(* neglnn: the Layer base class (layers/layer.py) and the Xavier           *)
(* initializer (initializers/xavier.py).                                   *)
(*                                                                         *)
(* One layer object is driven by a single-threaded driver.  Every action   *)
(* is one whole call of a method; the calls the method makes on its        *)
(* collaborators (the optimizer provider, the optimizers) are logged, in   *)
(* order, in `trace`.  A Python exception ends the call where it is raised *)
(* and keeps the effects made before it.                                   *)
(***************************************************************************)
EXTENDS Integers, Sequences, FiniteSets, TLC

\* ------------------------------------------------------------------ bounds
MaxParams == 2          \* most trainable parameters a layer returns
MaxCalls == 4           \* on_optimizer and dispatched optimize calls in one run
MaxRank == 2            \* longest shape handed to / read by Xavier.get
MaxDim == 2             \* largest dimension in such a shape

BatchSizes == {1, 2}    \* batch sizes N of the accumulation policy
Grads == {1, 2}         \* gradient values (an array is uniform: one value)
Inputs == {1}           \* forward inputs / backward output gradients
InitValues == {0, 1}    \* values an initializer draw may fill an array with

ArrayIds == 1..(2 * MaxParams)

Methods == {"on_initializer", "forward", "backward", "parameters"}

StateRef == 1           \* identity of the shared training state object

VARIABLES
    overrides,      \* the abstract methods the layer's class overrides
    nparams,        \* number of arrays a concrete parameters() returns
    batch,          \* batch size of the optimizers the provider builds
    providerFresh,  \* provider() returns a new optimizer on every call
    attrs,          \* instance attributes set on the layer so far
    layerState,     \* self.state: the reference stored by on_state
    optimizers,     \* self.optimizers: list of optimizer ids
    opt,            \* the optimizer objects created so far, by id
    arrays,         \* the array objects, by id: [shape, val]
    state,          \* the shared training state record
    setup,          \* outcome of the latest on_optimizer: none / failed / done
    ncalls,         \* dispatched Layer.optimize calls since the list was made
    steps,          \* on_optimizer and dispatched Layer.optimize calls so far
    last,           \* the latest call: [op, result]
    ret,            \* its return value
    arg,            \* its argument (gradients of optimize, shape of get)
    trace           \* calls it made on the provider and the optimizers

vars == <<overrides, nparams, batch, providerFresh, attrs, layerState,
          optimizers, opt, arrays, state, setup, ncalls,
          steps, last, arg, ret, trace>>

\* ----------------------------------------------------------------- helpers
Min(a, b) == IF a < b THEN a ELSE b

\* gradient tuples of up to n arrays: consecutive values from a base in S,
\* so that the arrays of one tuple differ
GradTuples(S, n) == {[i \in 1..k |-> b + i - 1] : k \in 0..n, b \in S}

RECURSIVE Prod(_)
Prod(s) == IF s = <<>> THEN 1 ELSE Head(s) * Prod(Tail(s))

NoShape == <<-1>>

\* numpy broadcasting of two shapes, right-aligned; NoShape when they clash
RECURSIVE Broadcast(_, _)
Broadcast(a, b) ==
    IF a = <<>> THEN b
    ELSE IF b = <<>> THEN a
    ELSE LET x == a[Len(a)]
             y == b[Len(b)]
             rest == Broadcast(SubSeq(a, 1, Len(a) - 1), SubSeq(b, 1, Len(b) - 1))
         IN  IF rest = NoShape \/ (x # y /\ x # 1 /\ y # 1) THEN NoShape
             ELSE Append(rest, IF x = 1 THEN y ELSE x)

\* one logged call: op on optimizer o, with the arguments that apply
Ev(op, o, shape, param, grad, flag) ==
    [op |-> op, o |-> o, shape |-> shape, param |-> param, grad |-> grad, flag |-> flag]


\* shape declared for the i-th parameter of the concrete layer
ParamShape(i) == <<i + 1, 2>>

\* ------------------------------------------------- the initializer (Xavier)
\* np.prod left out: the factor keeps one entry per dimension of the shape
ProdShapeKept(s) == <<Len(s)>>

\* np.prod reduces over every axis: its result is a scalar, of shape ()
ProdShape(s) == <<>>

\* the fan-in computed once, from the shape the state held at construction
InputNeuronsAtConstruction(st) == Prod(<<2>>)

\* input_neurons = np.prod(self.state.current_layer_input_shape)
InputNeurons(st) == Prod(st.current_layer_input_shape)

\* np.random.randn(*shape) * np.sqrt(1 / input_neurons): an array whose shape
\* is the broadcast of the drawn array's and the factor's, drawn from a
\* normal distribution of variance 1 / fan_in
XavierGet(shape, st) ==
    [shape |-> Broadcast(shape, ProdShape(st.current_layer_input_shape)),
     fan_in |-> InputNeurons(st)]

\* ------------------------------------------------ the optimizer contract
NewOpt(n) ==
    [batch |-> n, state |-> 0, nstate |-> 0, target |-> NoShape, ntarget |-> 0,
     pending |-> <<>>, recorded |-> FALSE, napplied |-> 0]

OptOnState(h, o, s) == [h EXCEPT ![o].state = s, ![o].nstate = @ + 1]

OptOnTargetShape(h, o, shp) == [h EXCEPT ![o].target = shp, ![o].ntarget = @ + 1]

OptRecord(h, o, u) == [h EXCEPT ![o].pending = Append(@, u), ![o].recorded = TRUE]

OptShouldOptimize(h, o) == Len(h[o].pending) >= h[o].batch

\* the single-update rule of the deterministic optimizer
UpdateRule(p, g) == p - g

RECURSIVE ApplyUpdates(_, _)
ApplyUpdates(arr, ups) ==
    IF ups = <<>> THEN arr
    ELSE ApplyUpdates(
            [arr EXCEPT ![Head(ups).parameter].val = UpdateRule(@, Head(ups).gradient)],
            Tail(ups))

\* optimize(): apply the pending updates in place, then back to idle
OptOptimize(env, o) ==
    [env EXCEPT !.arrays = ApplyUpdates(@, env.opt[o].pending),
                !.opt = [@ EXCEPT ![o].pending = <<>>, ![o].napplied = @ + 1]]

\* provider(): a new optimizer, or always the same one
ProviderCall(env) ==
    IF providerFresh \/ env.opt = <<>>
    THEN [env |-> [env EXCEPT !.opt = Append(@, NewOpt(batch))],
          id |-> Len(env.opt) + 1]
    ELSE [env |-> env, id |-> 1]

\* ---------------------------------------------------------------- the layer
\* a constructor that also creates the empty optimizer list
LayerInitAttrsWithList == {"optimizers"}

\* Layer.__init__: the attributes a new layer holds besides its shapes
LayerInitAttrs == {}

BaseOnInitializer == "NotImplementedError"

BaseForward == "NotImplementedError"

BaseBackward == "NotImplementedError"

\* a base parameters() that returns an empty tuple instead of raising
BaseParametersEmpty == [result |-> "ok", value |-> <<>>]

BaseParameters == [result |-> "NotImplementedError", value |-> <<>>]

\* parameters() of a concrete layer: the ids of its own arrays, in order
ConcreteParameters ==
    IF nparams > 0 /\ "params" \notin attrs
    THEN [result |-> "AttributeError: params", value |-> <<>>]
    ELSE [result |-> "ok", value |-> [i \in 1..nparams |-> i]]

LayerParameters ==
    IF "parameters" \in overrides THEN ConcreteParameters ELSE BaseParameters

Env0 ==
    [opt |-> opt, arrays |-> arrays, list |-> <<>>, trace |-> <<>>, result |-> "ok"]

Log(env, e) == [env EXCEPT !.trace = Append(@, e)]

\* the new optimizer inserted at the head of the list instead of appended
BindOneFront(env, o, p) ==
    LET e1 == Log([env EXCEPT !.opt = OptOnState(@, o, layerState)],
                  Ev("on_state", o, NoShape, 0, 0, FALSE))
        e2 == Log([e1 EXCEPT !.opt = OptOnTargetShape(@, o, env.arrays[p].shape)],
                  Ev("on_target_shape", o, env.arrays[p].shape, p, 0, FALSE))
    IN  Log([e2 EXCEPT !.list = <<o>> \o @], Ev("append", o, NoShape, 0, 0, FALSE))

\* the shape bound before the state is attached
BindOneShapeFirst(env, o, p) ==
    LET e1 == Log([env EXCEPT !.opt = OptOnTargetShape(@, o, env.arrays[p].shape)],
                  Ev("on_target_shape", o, env.arrays[p].shape, p, 0, FALSE))
        e2 == Log([e1 EXCEPT !.opt = OptOnState(@, o, layerState)],
                  Ev("on_state", o, NoShape, 0, 0, FALSE))
    IN  Log([e2 EXCEPT !.list = Append(@, o)], Ev("append", o, NoShape, 0, 0, FALSE))

\* the optimizer given a copy of the state: another object than the layer's
BindOneStateCopy(env, o, p) ==
    LET e1 == Log([env EXCEPT !.opt = OptOnState(@, o, layerState + 1)],
                  Ev("on_state", o, NoShape, 0, 0, FALSE))
        e2 == Log([e1 EXCEPT !.opt = OptOnTargetShape(@, o, env.arrays[p].shape)],
                  Ev("on_target_shape", o, env.arrays[p].shape, p, 0, FALSE))
    IN  Log([e2 EXCEPT !.list = Append(@, o)], Ev("append", o, NoShape, 0, 0, FALSE))

\* on_optimizer, lines 42-44: attach the state, bind the shape, append
BindOne(env, o, p) ==
    LET e1 == Log([env EXCEPT !.opt = OptOnState(@, o, layerState)],
                  Ev("on_state", o, NoShape, 0, 0, FALSE))
        e2 == Log([e1 EXCEPT !.opt = OptOnTargetShape(@, o, env.arrays[p].shape)],
                  Ev("on_target_shape", o, env.arrays[p].shape, p, 0, FALSE))
    IN  Log([e2 EXCEPT !.list = Append(@, o)], Ev("append", o, NoShape, 0, 0, FALSE))

\* the loop reading the state with a default: a missing state is no error
RECURSIVE OnOptimizerLoopAnyState(_, _)
OnOptimizerLoopAnyState(env, ps) ==
    IF ps = <<>> THEN env
    ELSE LET pr == ProviderCall(env)
             e1 == Log(pr.env, Ev("provider", pr.id, NoShape, 0, 0, FALSE))
         IN  OnOptimizerLoopAnyState(BindOne(e1, pr.id, Head(ps)), Tail(ps))

\* on_optimizer, lines 40-44: the loop over parameters()
RECURSIVE OnOptimizerLoop(_, _)
OnOptimizerLoop(env, ps) ==
    IF ps = <<>> THEN env
    ELSE LET pr == ProviderCall(env)
             e1 == Log(pr.env, Ev("provider", pr.id, NoShape, 0, 0, FALSE))
         IN  IF "state" \notin attrs
             THEN [e1 EXCEPT !.result = "AttributeError: state"]
             ELSE OnOptimizerLoop(BindOne(e1, pr.id, Head(ps)), Tail(ps))

\* on_optimizer without line 39: the new optimizers join the list already held
LayerOnOptimizerAppending ==
    LET ps == LayerParameters
        e0 == [Env0 EXCEPT !.list = optimizers]
    IN  IF ps.result # "ok" THEN [e0 EXCEPT !.result = ps.result]
        ELSE OnOptimizerLoop(e0, ps.value)

\* on_optimizer, lines 38-44: a new empty list, then the loop
LayerOnOptimizer ==
    LET ps == LayerParameters
    IN  IF ps.result # "ok" THEN [Env0 EXCEPT !.result = ps.result]
        ELSE OnOptimizerLoop(Env0, ps.value)

\* an update built on a copy of the parameter array
UpdateOfCopy(p, g) == [parameter |-> p + MaxParams, gradient |-> g]

\* Update(parameter, gradient): holds the parameter array itself
MakeUpdate(p, g) == [parameter |-> p, gradient |-> g]

\* optimizer.optimize() outside the if: applied whatever should_optimize says
DispatchAlways(env, o, p, g) ==
    LET u == MakeUpdate(p, g)
        e1 == Log([env EXCEPT !.opt = OptRecord(@, o, u)],
                  Ev("record", o, NoShape, u.parameter, u.gradient, FALSE))
        ready == OptShouldOptimize(e1.opt, o)
        e2 == Log(e1, Ev("should_optimize", o, NoShape, 0, 0, ready))
    IN  Log(OptOptimize(e2, o), Ev("optimize", o, NoShape, 0, 0, FALSE))

\* one accumulation for the whole layer: the update lands in every optimizer
\* of the list
DispatchSharedBuffer(env, o, p, g) ==
    LET u == MakeUpdate(p, g)
        e1 == Log([env EXCEPT !.opt =
                      [h \in DOMAIN env.opt |->
                          IF \E j \in DOMAIN env.list : env.list[j] = h
                          THEN [env.opt[h] EXCEPT !.pending = Append(@, u),
                                                  !.recorded = TRUE]
                          ELSE env.opt[h]]],
                  Ev("record", o, NoShape, u.parameter, u.gradient, FALSE))
        ready == OptShouldOptimize(e1.opt, o)
        e2 == Log(e1, Ev("should_optimize", o, NoShape, 0, 0, ready))
    IN  IF ready
        THEN Log(OptOptimize(e2, o), Ev("optimize", o, NoShape, 0, 0, FALSE))
        ELSE e2

\* optimize, lines 69-71: record, ask, apply when ready
Dispatch(env, o, p, g) ==
    LET u == MakeUpdate(p, g)
        e1 == Log([env EXCEPT !.opt = OptRecord(@, o, u)],
                  Ev("record", o, NoShape, u.parameter, u.gradient, FALSE))
        ready == OptShouldOptimize(e1.opt, o)
        e2 == Log(e1, Ev("should_optimize", o, NoShape, 0, 0, ready))
    IN  IF ready
        THEN Log(OptOptimize(e2, o), Ev("optimize", o, NoShape, 0, 0, FALSE))
        ELSE e2

\* the gradients paired in reverse order
Zip3Reversed(a, b, c) ==
    [i \in 1..Min(Len(a), Min(Len(b), Len(c))) |-> <<a[i], b[i], c[Len(c) + 1 - i]>>]

\* zip(): as many triples as the shortest of the three sequences
Zip3(a, b, c) ==
    [i \in 1..Min(Len(a), Min(Len(b), Len(c))) |-> <<a[i], b[i], c[i]>>]

RECURSIVE DispatchAll(_, _)
DispatchAll(env, triples) ==
    IF triples = <<>> THEN env
    ELSE LET t == Head(triples)
         IN  DispatchAll(Dispatch(env, t[1], t[2], t[3]), Tail(triples))

LayerOptimize(gradients) ==
    LET e0 == [Env0 EXCEPT !.list = optimizers]
    IN  IF "optimizers" \notin attrs
        THEN [e0 EXCEPT !.result = "AttributeError: optimizers"]
        ELSE LET ps == LayerParameters
             IN  IF ps.result # "ok" THEN [e0 EXCEPT !.result = ps.result]
                 ELSE DispatchAll(e0, Zip3(optimizers, ps.value, gradients))

\* ------------------------------------------------------------------ actions
None == <<>>

Called(op, result) == [op |-> op, result |-> result]

\* Stateful.on_state: store the reference to the shared state
OnState ==
    /\ attrs' = attrs \cup {"state"}
    /\ layerState' = StateRef
    /\ last' = Called("on_state", "ok")
    /\ ret' = None
    /\ arg' = None
    /\ trace' = <<>>
    /\ UNCHANGED <<overrides, nparams, batch, providerFresh, optimizers, opt,
                   arrays, state, setup, ncalls, steps>>

\* on_initializer: the base raises; a concrete layer fills each parameter
\* with initializer.get(*shape) (once: a later call would make new arrays)
OnInitializer(draw) ==
    /\ IF "on_initializer" \in overrides
       THEN /\ "params" \notin attrs
            /\ attrs' = attrs \cup {"params"}
            /\ arrays' = [a \in ArrayIds |->
                            IF a <= nparams
                            THEN [shape |-> XavierGet(ParamShape(a), state).shape,
                                  val |-> draw]
                            ELSE arrays[a]]
            /\ last' = Called("on_initializer", "ok")
       ELSE /\ draw = 0
            /\ last' = Called("on_initializer", BaseOnInitializer)
            /\ UNCHANGED <<attrs, arrays>>
    /\ ret' = None
    /\ arg' = None
    /\ trace' = <<>>
    /\ UNCHANGED <<overrides, nparams, batch, providerFresh, layerState, optimizers,
                   opt, state, setup, ncalls, steps>>

OnOptimizer ==
    /\ steps < MaxCalls
    /\ LET e == LayerOnOptimizer
       IN  /\ attrs' = attrs \cup {"optimizers"}
           /\ optimizers' = e.list
           /\ opt' = e.opt
           /\ trace' = e.trace
           /\ last' = Called("on_optimizer", e.result)
           /\ setup' = IF e.result = "ok" THEN "done" ELSE "failed"
    /\ ncalls' = 0
    /\ steps' = steps + 1
    /\ arg' = None
    /\ ret' = None
    /\ UNCHANGED <<overrides, nparams, batch, providerFresh, layerState, arrays,
                   state>>

Forward(x) ==
    /\ IF "forward" \in overrides
       THEN /\ ret' = x
            /\ last' = Called("forward", "ok")
       ELSE /\ ret' = None
            /\ last' = Called("forward", BaseForward)
    /\ arg' = x
    /\ trace' = <<>>
    /\ UNCHANGED <<overrides, nparams, batch, providerFresh, attrs, layerState,
                   optimizers, opt, arrays, state, setup, ncalls, steps>>

Backward(g) ==
    /\ IF "backward" \in overrides
       THEN /\ ret' = [input_gradient |-> g,
                       parameter_gradients |-> [i \in 1..nparams |-> g]]
            /\ last' = Called("backward", "ok")
       ELSE /\ ret' = None
            /\ last' = Called("backward", BaseBackward)
    /\ arg' = g
    /\ trace' = <<>>
    /\ UNCHANGED <<overrides, nparams, batch, providerFresh, attrs, layerState,
                   optimizers, opt, arrays, state, setup, ncalls,
                   steps>>

Parameters ==
    /\ last' = Called("parameters", LayerParameters.result)
    /\ ret' = LayerParameters.value
    /\ arg' = None
    /\ trace' = <<>>
    /\ UNCHANGED <<overrides, nparams, batch, providerFresh, attrs, layerState,
                   optimizers, opt, arrays, state, setup, ncalls,
                   steps>>

Optimize(gradients) ==
    /\ steps < MaxCalls
    /\ LET e == LayerOptimize(gradients)
       IN  /\ opt' = e.opt
           /\ arrays' = e.arrays
           /\ trace' = e.trace
           /\ last' = Called("optimize", e.result)
           /\ ncalls' = IF e.result = "ok" THEN ncalls + 1 ELSE ncalls
           /\ steps' = IF e.result = "ok" THEN steps + 1 ELSE steps
    /\ arg' = gradients
    /\ ret' = None
    /\ UNCHANGED <<overrides, nparams, batch, providerFresh, attrs, layerState,
                   optimizers, state, setup>>

\* the driver writes the input shape of the layer it is about to initialize
DriverWrite(s) ==
    /\ state' = [state EXCEPT !.current_layer_input_shape = s]
    /\ last' = Called("driver_write", "ok")
    /\ arg' = s
    /\ ret' = None
    /\ trace' = <<>>
    /\ UNCHANGED <<overrides, nparams, batch, providerFresh, attrs, layerState,
                   optimizers, opt, arrays, setup, ncalls, steps>>

\* Xavier.get(*shape)
Get(shape) ==
    /\ ret' = XavierGet(shape, state)
    /\ last' = Called("get", "ok")
    /\ arg' = shape
    /\ trace' = <<>>
    /\ UNCHANGED <<overrides, nparams, batch, providerFresh, attrs, layerState,
                   optimizers, opt, arrays, state, setup, ncalls, steps>>

\* ------------------------------------------------------------ specification
\* target shapes: positive dimensions; shapes in the state: any dimensions
TargetShapes == UNION {[1..k -> 1..MaxDim] : k \in 0..MaxRank}

StateShapes == UNION {[1..k -> 0..MaxDim] : k \in 0..MaxRank}

LayerKinds == {{}, Methods \ {"parameters"}, Methods}

InitLayer ==
    /\ overrides \in LayerKinds
    /\ nparams \in 0..MaxParams
    /\ ("parameters" \notin overrides => nparams = 0)
    /\ batch \in BatchSizes
    /\ (nparams = 0 => batch = 1)
    /\ attrs = LayerInitAttrs
    /\ layerState = 0
    /\ optimizers = <<>>
    /\ opt = <<>>
    /\ arrays = [a \in ArrayIds |-> [shape |-> <<>>, val |-> 0]]
    /\ state = [current_layer_input_shape |-> <<2>>]
    /\ setup = "none"
    /\ ncalls = 0
    /\ steps = 0
    /\ last = Called("__init__", "ok")
    /\ ret = None
    /\ arg = None
    /\ trace = <<>>

Init == InitLayer /\ providerFresh = TRUE

InitAnyProvider == InitLayer /\ overrides = Methods /\ providerFresh \in BOOLEAN

Next ==
    \/ OnState
    \/ \E draw \in InitValues : OnInitializer(draw)
    \/ OnOptimizer
    \/ \E x \in Inputs : Forward(x)
    \/ \E g \in Inputs : Backward(g)
    \/ Parameters
    \/ \E gs \in GradTuples(Grads, nparams + 1) : Optimize(gs)

Spec == Init /\ [][Next]_vars

SpecAnyProvider == InitAnyProvider /\ [][Next]_vars

\* the initializer alone: the driver writes shapes, get is called
InitXavier == Init /\ overrides = Methods /\ nparams = 1 /\ batch = 1

NextXavier ==
    \/ \E s \in StateShapes : DriverWrite(s)
    \/ \E shape \in TargetShapes : Get(shape)

SpecXavier == InitXavier /\ [][NextXavier]_vars

\* a concrete layer and the initializer on one shared state: the driver
\* rewrites the input shape between the layer's operations
LayerInputShapes == {<<d>> : d \in 1..MaxDim}

InitShared == Init /\ overrides = Methods /\ batch = 1

NextShared ==
    \/ Next
    \/ \E s \in LayerInputShapes : DriverWrite(s)
    \/ \E i \in 1..MaxParams : Get(ParamShape(i))

SpecShared == InitShared /\ [][NextShared]_vars

\* ------------------------------------------------------------------- claims
Ops(tr, op) == {k \in 1..Len(tr) : tr[k].op = op}

AppliedInCall(o) == \E k \in Ops(trace, "optimize") : trace[k].o = o

Bound == {optimizers[i] : i \in 1..Len(optimizers)}

\* C1: in a Layer.optimize call every triple is handled as record, then
\* should_optimize on the same optimizer, then optimize on it exactly when
\* should_optimize answered true; the layer makes no other call, so optimize
\* never comes before the triple's record nor after a false answer.
C1_RecordAskApply ==
    last.op = "optimize" =>
        /\ \A k \in 1..Len(trace) :
              LET e == trace[k]
              IN  /\ e.op \in {"record", "should_optimize", "optimize"}
                  /\ e.op = "record" =>
                        /\ k < Len(trace)
                        /\ trace[k + 1].op = "should_optimize"
                        /\ trace[k + 1].o = e.o
                        /\ (k > 1 => trace[k - 1].op # "record")
                  /\ e.op = "should_optimize" =>
                        /\ k > 1
                        /\ trace[k - 1].op = "record"
                        /\ trace[k - 1].o = e.o
                        /\ e.flag <=> (k < Len(trace) /\ trace[k + 1].op = "optimize")
                  /\ e.op = "optimize" =>
                        /\ k > 2
                        /\ trace[k - 1].op = "should_optimize"
                        /\ trace[k - 1].o = e.o
                        /\ trace[k - 1].flag
                        /\ trace[k - 2].op = "record"
                        /\ trace[k - 2].o = e.o
        /\ last.result = "ok" =>
              Cardinality(Ops(trace, "record")) =
                  Min(Len(optimizers), Min(nparams, Len(arg)))

\* a call in which one optimizer was applied and another only accumulated
C1_Witness ==
    /\ last.op = "optimize"
    /\ \E k \in Ops(trace, "should_optimize") : trace[k].flag
    /\ \E k \in Ops(trace, "should_optimize") : ~trace[k].flag

\* C2: once on_optimizer has completed, there are as many bound optimizers as
\* parameters, they are distinct, and the i-th is bound (once) to the shape
\* of the i-th parameter; forward, backward and optimize keep this.
C2_ListMatchesParameters ==
    setup = "done" =>
        /\ "optimizers" \in attrs
        /\ LayerParameters.result = "ok"
        /\ Len(optimizers) = Len(LayerParameters.value)
        /\ \A i \in 1..Len(optimizers) :
              /\ optimizers[i] \in DOMAIN opt
              /\ opt[optimizers[i]].ntarget = 1
              /\ opt[optimizers[i]].target = arrays[LayerParameters.value[i]].shape
        /\ \A i, j \in 1..Len(optimizers) : optimizers[i] = optimizers[j] => i = j

C2_Witness ==
    /\ setup = "done"
    /\ nparams = MaxParams
    /\ last.op = "optimize"
    /\ ncalls >= 2
    /\ \E o \in Bound : opt[o].napplied > 0

\* C3: on_optimizer calls provider once per parameter, in parameters()
\* order, and for the optimizer obtained on_state, then on_target_shape with
\* that parameter's shape, then the append; with a provider of fresh
\* instances every bound or recorded optimizer got on_state once and
\* on_target_shape once.
C3_ProviderStateShapeAppend ==
    /\ last.op = "on_optimizer" =>
          /\ \A k \in 1..Len(trace) :
                LET e == trace[k]
                    i == ((k - 1) \div 4) + 1
                    first == trace[4 * (i - 1) + 1]
                IN  /\ e.op = <<"provider", "on_state", "on_target_shape", "append">>[((k - 1) % 4) + 1]
                    /\ e.o = first.o
                    /\ e.op = "on_target_shape" =>
                          /\ e.param = i
                          /\ e.shape = arrays[i].shape
          /\ last.result = "ok" =>
                /\ Len(trace) = 4 * nparams
                /\ optimizers = [i \in 1..nparams |-> trace[4 * i].o]
    /\ providerFresh =>
          \A o \in DOMAIN opt :
              (o \in Bound \/ opt[o].recorded) =>
                  /\ opt[o].nstate = 1
                  /\ opt[o].ntarget = 1
                  /\ opt[o].state = StateRef

C3_Witness ==
    /\ providerFresh
    /\ nparams = MaxParams
    /\ setup = "done"
    /\ \A o \in Bound : opt[o].recorded

\* C4 (as claimed): after every Layer.optimize that was given gradients and
\* returns, each bound optimizer was applied in that call exactly when the
\* number of calls since on_optimizer is a multiple of N, holds at most N
\* pending updates and is not ready.
C4_AppliedEveryNth ==
    (last.op = "optimize" /\ last.result = "ok" /\ setup = "done" /\ arg # <<>>) =>
        \A o \in Bound :
            /\ AppliedInCall(o) <=> (ncalls % batch = 0)
            /\ Len(opt[o].pending) <= batch
            /\ ~OptShouldOptimize(opt, o)

\* C5 (as claimed): a Layer.optimize call whose gradients differ in number
\* from the parameters (here: some, but fewer) ends in an error and records
\* nothing.
C5_MismatchFailsFast ==
    (last.op = "optimize" /\ setup = "done" /\ 0 < Len(arg) /\ Len(arg) < nparams) =>
        /\ last.result # "ok"
        /\ trace = <<>>

\* C6: Layer.optimize on a layer whose on_optimizer was never called ends in
\* the error naming the missing optimizers attribute, calls no optimizer and
\* changes no optimizer and no array.
C6_OptimizeBeforeOnOptimizer ==
    [][(last'.op = "optimize" /\ setup = "none") =>
          /\ last'.result = "AttributeError: optimizers"
          /\ trace' = <<>>
          /\ opt' = opt
          /\ arrays' = arrays]_vars

C6_Witness ==
    /\ last.op = "optimize"
    /\ setup = "none"
    /\ overrides = Methods
    /\ nparams > 0
    /\ {"state", "params"} \subseteq attrs
    /\ Len(arg) = nparams

ErrorOf(m) == (m \notin overrides /\ last.op = m) => last.result = "NotImplementedError"

\* C7 (as claimed): a method that is not overridden ends in the
\* not-implemented error, and so do on_optimizer and optimize on a layer
\* that does not override parameters().
C7_AllNotImplemented ==
    /\ \A m \in Methods : ErrorOf(m)
    /\ ("parameters" \notin overrides /\ last.op \in {"on_optimizer", "optimize"}) =>
          last.result = "NotImplementedError"

\* C7 (amended): as above, except that optimize ends in the not-implemented
\* error only when the optimizers attribute exists (on_optimizer was
\* attempted); before that it ends in the missing-attribute error.  Neither
\* call ever returns normally.
C7_NotImplementedOrMissingList ==
    /\ \A m \in Methods : ErrorOf(m)
    /\ ("parameters" \notin overrides /\ last.op = "on_optimizer") =>
          last.result = "NotImplementedError"
    /\ ("parameters" \notin overrides /\ last.op = "optimize") =>
          last.result = IF "optimizers" \in attrs
                        THEN "NotImplementedError"
                        ELSE "AttributeError: optimizers"

C7_Witness ==
    /\ "parameters" \notin overrides
    /\ "forward" \in overrides
    /\ last.op = "optimize"
    /\ last.result = "NotImplementedError"

\* C8 (as claimed): until on_optimizer is first called the list of bound
\* optimizers exists and is empty.
C8_ListExistsEmpty ==
    setup = "none" => ("optimizers" \in attrs /\ optimizers = <<>>)

\* C8 (amended): until on_optimizer is first called the layer has no
\* optimizers attribute and no optimizer has been created; the attribute
\* exists from the first on_optimizer call on.
C8_NoListBeforeOnOptimizer ==
    /\ setup = "none" => ("optimizers" \notin attrs /\ optimizers = <<>> /\ opt = <<>>)
    /\ setup # "none" => "optimizers" \in attrs

C8_Witness ==
    /\ setup = "none"
    /\ last.op = "backward"
    /\ last.result = "ok"
    /\ {"state", "params"} \subseteq attrs

\* C9: one parameter, batch size 1, setup done in order: a Layer.optimize((g,))
\* leaves in the layer's own parameter array the single-update rule applied
\* to its previous value and g.
C9_SingleUpdateVisible ==
    [][(/\ last'.op = "optimize"
        /\ last'.result = "ok"
        /\ setup = "done"
        /\ nparams = 1
        /\ batch = 1
        /\ Len(arg') = 1) =>
          arrays'[LayerParameters.value[1]].val =
              UpdateRule(arrays[LayerParameters.value[1]].val, arg'[1])]_vars

C9_Witness ==
    /\ last.op = "optimize"
    /\ last.result = "ok"
    /\ nparams = 1
    /\ batch = 1
    /\ Len(arg) = 1
    /\ AppliedInCall(optimizers[1])
    /\ arrays[1].val = UpdateRule(1, arg[1])

\* C10: Xavier.get returns an array of exactly the shape asked for, whatever
\* shape the shared state holds.
C10_GetShape ==
    last.op = "get" => ret.shape = arg

C10_Witness ==
    /\ last.op = "get"
    /\ Len(arg) = MaxRank
    /\ Len(state.current_layer_input_shape) = MaxRank
    /\ ret.fan_in = 0

Records(tr) == SelectSeq(tr, LAMBDA e : e.op = "record")

\* C11: in a Layer.optimize call that returns, the j-th record is made on the
\* j-th bound optimizer with the j-th array of parameters() and the j-th
\* gradient; every pending update of a bound optimizer holds that optimizer's
\* own parameter; with three sequences of equal length there is exactly one
\* record per bound optimizer.
C11_RecordsPairElementwise ==
    /\ (last.op = "optimize" /\ last.result = "ok") =>
          LET recs == Records(trace)
          IN  /\ Len(recs) <= Len(optimizers)
              /\ Len(recs) <= Len(arg)
              /\ \A j \in 1..Len(recs) :
                    /\ recs[j].o = optimizers[j]
                    /\ recs[j].param = LayerParameters.value[j]
                    /\ recs[j].grad = arg[j]
              /\ (Len(arg) = nparams /\ Len(optimizers) = nparams) =>
                    Len(recs) = nparams
    /\ setup = "done" =>
          \A i \in 1..Len(optimizers) :
              \A k \in 1..Len(opt[optimizers[i]].pending) :
                  opt[optimizers[i]].pending[k].parameter = LayerParameters.value[i]

C11_Witness ==
    /\ last.op = "optimize"
    /\ last.result = "ok"
    /\ nparams = MaxParams
    /\ Len(arg) = nparams
    /\ Len(Records(trace)) = nparams
    /\ batch = 2
    /\ \A i \in 1..nparams : Len(opt[optimizers[i]].pending) = 1

\* the loop of Layer.optimize after its first k iterations
AfterSteps(gradients, k) ==
    DispatchAll([Env0 EXCEPT !.list = optimizers],
                SubSeq(Zip3(optimizers, LayerParameters.value, gradients), 1, k))

\* C12: in every Layer.optimize call that returns, the iteration that handles
\* position k leaves the pending updates of every other bound optimizer and
\* the value of every other parameter as they were before that iteration;
\* the bound optimizers are pairwise distinct objects.
C12_StepFrame ==
    [][(last'.op = "optimize" /\ last'.result = "ok") =>
          LET n == Len(Zip3(optimizers, LayerParameters.value, arg'))
          IN  /\ AfterSteps(arg', n).opt = opt'
              /\ AfterSteps(arg', n).arrays = arrays'
              /\ \A k \in 1..n :
                    LET before == AfterSteps(arg', k - 1)
                        after == AfterSteps(arg', k)
                    IN  \A j \in 1..Len(optimizers) :
                            j # k =>
                               /\ optimizers[j] # optimizers[k]
                               /\ after.opt[optimizers[j]].pending =
                                      before.opt[optimizers[j]].pending
                               /\ after.arrays[j] = before.arrays[j]]_vars

\* the first optimizer was applied in a call that left the second one
\* accumulating
C12_Witness ==
    /\ last.op = "optimize"
    /\ last.result = "ok"
    /\ nparams = MaxParams
    /\ Len(arg) = nparams
    /\ batch = 2
    /\ AppliedInCall(optimizers[1])
    /\ Len(opt[optimizers[2]].pending) = 1
    /\ opt[optimizers[2]].napplied = 0

\* C13: an on_optimizer step leaves every array as it was; in a Layer.optimize
\* step, a parameter whose optimizer answered should_optimize with False has
\* the same value after the call as before it; and an existing parameter
\* array changes only in a Layer.optimize step in which an optimizer was
\* applied.
C13_ChangedOnlyByApply ==
    [][/\ last'.op = "on_optimizer" => arrays' = arrays
       /\ last'.op = "optimize" =>
             \A k \in Ops(trace', "should_optimize") :
                 ~trace'[k].flag =>
                     \A i \in 1..Len(optimizers) :
                         optimizers[i] = trace'[k].o => arrays'[i] = arrays[i]
       /\ ("params" \in attrs /\ arrays' # arrays) =>
             /\ last'.op = "optimize"
             /\ Ops(trace', "optimize") # {}]_vars

\* a call on a two-parameter layer in which both optimizers only accumulated
C13_Witness ==
    /\ last.op = "optimize"
    /\ last.result = "ok"
    /\ nparams = MaxParams
    /\ Len(arg) = nparams
    /\ Len(optimizers) = nparams
    /\ Ops(trace, "optimize") = {}
    /\ \A i \in 1..nparams :
          /\ opt[optimizers[i]].napplied = 0
          /\ Len(opt[optimizers[i]].pending) = 1
          /\ arrays[i].val \in InitValues

\* C14: every get step computes its fan-in as the product of the dimensions
\* of current_layer_input_shape as the state holds it when get is called,
\* whatever the driver wrote and whatever get returned earlier.
C14_FanInAtCallTime ==
    [][last'.op = "get" =>
          ret'.fan_in = Prod(state.current_layer_input_shape)]_vars

\* a get after the driver replaced the shape held at construction by one of
\* another product
C14_Witness ==
    /\ last.op = "get"
    /\ state.current_layer_input_shape = <<MaxDim, MaxDim>>
    /\ ret.fan_in = MaxDim * MaxDim

\* C15: an on_optimizer, optimize or get step leaves the shared state (and the
\* layer's reference to it) as it was, and every optimizer that on_optimizer
\* binds holds the very reference the layer holds.
C15_StateOnlyReadAndShared ==
    [][/\ last'.op \in {"on_optimizer", "optimize", "get"} =>
             /\ state' = state
             /\ layerState' = layerState
       /\ last'.op = "on_optimizer" =>
             \A k \in Ops(trace', "append") :
                 /\ opt'[trace'[k].o].state = layerState
                 /\ layerState = StateRef]_vars

\* on_optimizer completed on a two-parameter layer after the driver had
\* replaced the shape the state held at construction
C15_Witness ==
    /\ last.op = "on_optimizer"
    /\ last.result = "ok"
    /\ nparams = MaxParams
    /\ state.current_layer_input_shape = <<1>>
    /\ \A i \in 1..nparams : opt[optimizers[i]].state = StateRef

\* C16 as stated: on_optimizer on a layer that holds no state never
\* completes.
C16_FailsWithoutState ==
    (last.op = "on_optimizer" /\ "state" \notin attrs) => last.result # "ok"

\* C16: on_optimizer on a layer that holds no state completes exactly when
\* parameters() returns an empty sequence, and then binds nothing; in every
\* other case it raises and leaves the optimizer list empty; every bound
\* optimizer has the shared state attached.
C16_FailsUnlessNoParameters ==
    /\ (last.op = "on_optimizer" /\ "state" \notin attrs) =>
          /\ last.result = "ok" <=>
                (LayerParameters.result = "ok" /\ LayerParameters.value = <<>>)
          /\ optimizers = <<>>
    /\ \A o \in Bound :
          /\ opt[o].state = StateRef
          /\ opt[o].nstate >= 1

\* on_optimizer raised on a layer with parameters and no state, after one
\* provider call and before anything was bound
C16_Witness ==
    /\ last.op = "on_optimizer"
    /\ "state" \notin attrs
    /\ nparams = MaxParams
    /\ last.result = "AttributeError: state"
    /\ optimizers = <<>>
    /\ Len(opt) = 1

\* C17: an on_optimizer step that completes leaves a list of exactly as many
\* optimizers as parameters() returns, none of which was in the list before,
\* and changes no optimizer that existed before; a Layer.optimize step
\* changes no optimizer outside the current list, so the pending updates of a
\* dropped optimizer are never recorded to nor applied.
C17_ListReplaced ==
    [][/\ (last'.op = "on_optimizer" /\ last'.result = "ok") =>
             /\ Len(optimizers') = Len(LayerParameters.value)
             /\ Bound \cap Bound' = {}
             /\ \A o \in DOMAIN opt : opt'[o] = opt[o]
       /\ setup' = "done" => Len(optimizers') = nparams
       /\ last'.op = "optimize" =>
             /\ DOMAIN opt' = DOMAIN opt
             /\ \A o \in DOMAIN opt \ Bound : opt'[o] = opt[o]]_vars

\* after a second on_optimizer an optimize call reached every new optimizer
\* while a dropped one still holds the update it had accumulated
C17_Witness ==
    /\ last.op = "optimize"
    /\ last.result = "ok"
    /\ setup = "done"
    /\ nparams = MaxParams
    /\ Len(arg) = nparams
    /\ \A o \in Bound : opt[o].recorded
    /\ \E o \in DOMAIN opt \ Bound : Len(opt[o].pending) = 1

====
